---------------------------- MODULE Spec2Model ----------------------------
(***************************************************************************)
(* Counter widgets of naitoryo1234/codex_project:                          *)
(*   - the koyaku tally counter with the ready handshake                   *)
(*       (src/koyaku_counter_component/src/index.tsx),                      *)
(*   - its earlier variant without the handshake (src/unnamed/part_000),    *)
(*   - the swipe counter (src/unnamed/part_001).                            *)
(* One behaviour runs one of the three widgets (variable widget); the       *)
(* browser's local storage, its timers and the Streamlit host are part of   *)
(* the state.                                                               *)
(*                                                                         *)
(* JavaScript numbers are modelled in tenths (one fractional digit), with   *)
(* NaN and the infinities apart; texts (local-storage items, typed input)   *)
(* are sequences of characters or of JSON tokens, and JSON.stringify,       *)
(* JSON.parse and Number() are computed on them.                            *)
(***************************************************************************)
EXTENDS Integers, Sequences, FiniteSets, TLC

(***************************************************************************)
(* Bounds of the model.                                                     *)
(***************************************************************************)
\* Number of counter slots (ITEMS has 10 entries in index.tsx:34-45 and 5 in
\* part_000; the handlers treat every slot alike).
NumItems == 2
\* Increments are explored while a slot is below MaxCount.
MaxCount == 3
\* Timer handles the browser hands out before the model stops arming timers.
MaxTimers == 3
\* Slots shown as main items, the rest being extra items (MAIN_ITEM_COUNT is
\* 6 of the 10 items in index.tsx:47).
MainItems == 1
\* setComponentReady calls counted before the model stops delivering render
\* events to a widget that answers each of them with another call.
MaxReadyCalls == 2

(***************************************************************************)
(* JavaScript numbers.                                                      *)
(***************************************************************************)
Fin(tenths) == [k |-> "fin", v |-> tenths]
NaN == [k |-> "nan", v |-> 0]
PosInf == [k |-> "inf", v |-> 1]
NegInf == [k |-> "inf", v |-> -1]
NumOfInt(n) == Fin(n * 10)

\* Number.isFinite
IsFinite(x) == x.k = "fin"
\* x < 0 as JavaScript compares: false for NaN
IsNegative(x) == x.k # "nan" /\ x.v < 0
\* Math.floor of a finite number, as an integer
MathFloor(x) == x.v \div 10
\* Math.round of a finite number (halves go up), as an integer
MathRound(x) == (x.v + 5) \div 10

(***************************************************************************)
(* Characters and Number(string).                                           *)
(***************************************************************************)
Digits == <<"0", "1", "2", "3", "4", "5", "6", "7", "8", "9">>
IsDigit(c) == \E i \in 1..10 : Digits[i] = c
DigitVal(c) == (CHOOSE i \in 1..10 : Digits[i] = c) - 1
IsSpace(c) == c = " "

RECURSIVE TrimLeft(_)
TrimLeft(s) == IF s # <<>> /\ IsSpace(Head(s)) THEN TrimLeft(Tail(s)) ELSE s
RECURSIVE TrimRight(_)
TrimRight(s) ==
  IF s # <<>> /\ IsSpace(s[Len(s)]) THEN TrimRight(SubSeq(s, 1, Len(s) - 1)) ELSE s
\* String.prototype.trim
Trim(s) == TrimRight(TrimLeft(s))

RECURSIVE AllDigits(_)
AllDigits(s) == s = <<>> \/ (IsDigit(Head(s)) /\ AllDigits(Tail(s)))
RECURSIVE DigitsValue(_)
DigitsValue(s) ==
  IF s = <<>> THEN 0 ELSE DigitsValue(SubSeq(s, 1, Len(s) - 1)) * 10 + DigitVal(s[Len(s)])
DotAt(s) == IF \E i \in 1..Len(s) : s[i] = "." THEN CHOOSE i \in 1..Len(s) : s[i] = "." ELSE 0

InfinityChars == <<"I", "n", "f", "i", "n", "i", "t", "y">>

\* An unsigned decimal literal: digits, digits.digits, digits. or .digits
UnsignedToNumber(s) ==
  LET d == DotAt(s)
      ip == IF d = 0 THEN s ELSE SubSeq(s, 1, d - 1)
      fp == IF d = 0 THEN <<>> ELSE SubSeq(s, d + 1, Len(s))
  IN IF s = InfinityChars THEN PosInf
     ELSE IF ~AllDigits(ip) \/ ~AllDigits(fp) \/ (ip = <<>> /\ fp = <<>>) THEN NaN
     ELSE Fin(DigitsValue(ip) * 10 + (IF fp = <<>> THEN 0 ELSE DigitVal(fp[1])))

\* Number(string): the string is trimmed, "" is 0, a signed decimal literal is
\* its value and anything else is NaN.
StringToNumber(chars) ==
  LET s == Trim(chars)
      signed == s # <<>> /\ (Head(s) = "-" \/ Head(s) = "+")
      u == UnsignedToNumber(IF signed THEN Tail(s) ELSE s)
  IN IF s = <<>> THEN Fin(0)
     ELSE IF signed /\ Head(s) = "-"
          THEN (IF u.k = "nan" THEN NaN ELSE [k |-> u.k, v |-> 0 - u.v])
          ELSE u

RECURSIVE DigitsOf(_)
DigitsOf(n) == IF n < 10 THEN <<Digits[n + 1]>> ELSE DigitsOf(n \div 10) \o <<Digits[(n % 10) + 1]>>
\* String(n) of an integer
IntToChars(n) == IF n < 0 THEN <<"-">> \o DigitsOf(0 - n) ELSE DigitsOf(n)

(***************************************************************************)
(* JavaScript values and JSON texts.  A text is a sequence of JSON tokens;  *)
(* a number or string token carries its characters.                         *)
(***************************************************************************)
Tok(kind, body) == [tok |-> kind, body |-> body]
TNum(chars) == Tok("num", chars)
TStr(chars) == Tok("str", chars)
TP(kind) == Tok(kind, <<>>)

JVal(t, num, str, bool, elems) ==
  [t |-> t, num |-> num, str |-> str, bool |-> bool, elems |-> elems]
JNum(x) == JVal("number", x, <<>>, FALSE, <<>>)
JStr(s) == JVal("string", NaN, s, FALSE, <<>>)
JBool(b) == JVal("boolean", NaN, <<>>, b, <<>>)
JNull == JVal("null", NaN, <<>>, FALSE, <<>>)
JUndefined == JVal("undefined", NaN, <<>>, FALSE, <<>>)
JArr(es) == JVal("array", NaN, <<>>, FALSE, es)
\* an object's elems are its members, [key |-> chars, val |-> value]
JObj(ms) == JVal("object", NaN, <<>>, FALSE, ms)

ParseFail == [ok |-> FALSE, val |-> JUndefined, rest |-> <<>>]
ParseOk(v, r) == [ok |-> TRUE, val |-> v, rest |-> r]

RECURSIVE ParseValue(_), ParseElems(_, _), ParseMembers(_, _)
ParseValue(ts) ==
  IF ts = <<>> THEN ParseFail
  ELSE LET h == Head(ts)
           r == Tail(ts)
       IN CASE h.tok = "num" -> ParseOk(JNum(StringToNumber(h.body)), r)
            [] h.tok = "str" -> ParseOk(JStr(h.body), r)
            [] h.tok = "true" -> ParseOk(JBool(TRUE), r)
            [] h.tok = "false" -> ParseOk(JBool(FALSE), r)
            [] h.tok = "null" -> ParseOk(JNull, r)
            [] h.tok = "[" ->
                 IF r # <<>> /\ Head(r).tok = "]" THEN ParseOk(JArr(<<>>), Tail(r))
                 ELSE ParseElems(r, <<>>)
            [] h.tok = "{" ->
                 IF r # <<>> /\ Head(r).tok = "}" THEN ParseOk(JObj(<<>>), Tail(r))
                 ELSE ParseMembers(r, <<>>)
            [] OTHER -> ParseFail
ParseElems(ts, acc) ==
  LET v == ParseValue(ts)
  IN IF ~v.ok \/ v.rest = <<>> THEN ParseFail
     ELSE IF Head(v.rest).tok = "," THEN ParseElems(Tail(v.rest), Append(acc, v.val))
     ELSE IF Head(v.rest).tok = "]" THEN ParseOk(JArr(Append(acc, v.val)), Tail(v.rest))
     ELSE ParseFail
ParseMembers(ts, acc) ==
  IF Len(ts) < 2 \/ ts[1].tok # "str" \/ ts[2].tok # ":" THEN ParseFail
  ELSE LET v == ParseValue(SubSeq(ts, 3, Len(ts)))
           m == [key |-> ts[1].body, val |-> v.val]
       IN IF ~v.ok \/ v.rest = <<>> THEN ParseFail
          ELSE IF Head(v.rest).tok = "," THEN ParseMembers(Tail(v.rest), Append(acc, m))
          ELSE IF Head(v.rest).tok = "}" THEN ParseOk(JObj(Append(acc, m)), Tail(v.rest))
          ELSE ParseFail

\* JSON.parse: the value, or a SyntaxError
JSONparse(text) ==
  LET p == ParseValue(text)
  IN IF p.ok /\ p.rest = <<>> THEN [threw |-> FALSE, val |-> p.val]
     ELSE [threw |-> TRUE, val |-> JUndefined]

\* JSON.stringify of an array of integers
RECURSIVE StringifyElems(_)
StringifyElems(ns) ==
  IF ns = <<>> THEN <<>>
  ELSE IF Len(ns) = 1 THEN <<TNum(IntToChars(ns[1]))>>
  ELSE <<TNum(IntToChars(ns[1])), TP(",")>> \o StringifyElems(Tail(ns))
JSONstringifyArray(ns) == <<TP("[")>> \o StringifyElems(ns) \o <<TP("]")>>

\* array[index] with a 0-based index: undefined outside the array
ArrayAt(a, index) == IF index + 1 \in 1..Len(a.elems) THEN a.elems[index + 1] ELSE JUndefined

\* Number(x)
RECURSIVE ToNumber(_)
ToNumber(x) ==
  CASE x.t = "number" -> x.num
    [] x.t = "string" -> StringToNumber(x.str)
    [] x.t = "boolean" -> IF x.bool THEN Fin(10) ELSE Fin(0)
    [] x.t = "null" -> Fin(0)
    [] x.t = "array" ->
         IF Len(x.elems) = 0 THEN Fin(0)
         ELSE IF Len(x.elems) > 1 THEN NaN
         ELSE IF x.elems[1].t \in {"null", "undefined"} THEN Fin(0)
         ELSE IF x.elems[1].t \in {"number", "string", "array"} THEN ToNumber(x.elems[1])
         ELSE NaN
    [] OTHER -> NaN

(***************************************************************************)
(* Local storage items.                                                     *)
(***************************************************************************)
Absent == [present |-> FALSE, text |-> <<>>]
Item(text) == [present |-> TRUE, text |-> text]

(***************************************************************************)
(* Program constants.                                                       *)
(***************************************************************************)
STORAGE_KEY_COUNTS == <<"k", "o", "y", "a", "k", "u", "C", "o", "u", "n", "t", "e", "r", "_", "c", "o", "u", "n", "t", "s">>
\* the initial value of let storageKey
SWIPE_DEFAULT_KEY == <<"s", "w", "i", "p", "e", "_", "c", "o", "u", "n", "t", "e", "r", "_", "s", "t", "o", "r", "a", "g", "e">>
\* a storage key the host may supply
ALT_KEY == <<"k", "2">>
StorageKeys == {STORAGE_KEY_COUNTS, SWIPE_DEFAULT_KEY, ALT_KEY}
\* the undo window, in milliseconds
UNDO_TIMEOUT == 10000
\* the step by which the model's clock advances
TickMs == UNDO_TIMEOUT \div 2
\* ITEMS.map(() => 0)
Zeros == [i \in 1..NumItems |-> 0]
\* useState<number[] | null>(null), useRef<number | null>(null)
NoUndo == <<>>
NoTimer == 0
NoReset == 0 - 1
Widgets == {"koyaku", "legacy", "swipe"}
Koyakus == {"koyaku", "legacy"}

VARIABLES
  widget,          \* which widget this page runs
  keepArgs,        \* whether the history variable last keeps the handlers' arguments
  phase,           \* "loaded" (script not yet run), "booted", "mounted",
                   \* "crashed" (an exception escaped an effect: React unmounted the root)
  localStorage,    \* window.localStorage: key -> item
  storageFull,     \* whether window.localStorage.setItem throws (quota exceeded)
  counts,          \* useState counts
  undoCounts,      \* useState undoCounts (NoUndo is null)
  undoTimerRef,    \* undoTimerRef.current (NoTimer is null)
  timers,          \* the browser's pending timeouts: [id, due], due in ms from now
  resetAge,        \* ms since the most recent handleReset (NoReset: none yet)
  streamlitReady,  \* module variable streamlitReady, the isReady prop rendered
  readyCalls,      \* number of Streamlit.setComponentReady calls so far
  sentNow,         \* the Streamlit.setComponentValue payloads of the latest step
  sentLast,        \* the latest payload ever sent (<<>>: none)
  last             \* history variable, the latest handler: its name (op); the
                   \* counts before it for a reset, and for an undo that follows
                   \* a reset at once the counts before that reset, the item
                   \* found for a mount (pre); whether it met a negative result

hostVars == <<readyCalls, sentNow, sentLast>>
koyakuVars == <<counts, undoCounts, undoTimerRef, timers, resetAge, streamlitReady>>

(***************************************************************************)
(* Hydration and persistence of the koyaku widgets.                         *)
(***************************************************************************)
\* a slot hydrated from the element after its own
HydrateSlotShifted(parsed, index) ==
  LET value == ToNumber(ArrayAt(parsed, index + 1))
  IN IF ~IsFinite(value) \/ IsNegative(value) THEN 0 ELSE MathFloor(value)

\* getInitialCounts, given the item stored under STORAGE_KEY_COUNTS
HydrateSlot(parsed, index) ==
  LET value == ToNumber(ArrayAt(parsed, index))
  IN IF ~IsFinite(value) \/ IsNegative(value) THEN 0 ELSE MathFloor(value)
\* a hydration that maps over the stored array instead of ITEMS
GetInitialCountsAsStored(item) ==
  IF ~item.present \/ item.text = <<>> THEN Zeros
  ELSE IF ~JSONparse(item.text).threw /\ JSONparse(item.text).val.t = "array"
       THEN [i \in 1..Len(JSONparse(item.text).val.elems) |->
               HydrateSlot(JSONparse(item.text).val, i - 1)]
       ELSE Zeros
GetInitialCounts(item) ==
  IF ~item.present \/ item.text = <<>> THEN Zeros
  ELSE LET p == JSONparse(item.text)
       IN IF ~p.threw /\ p.val.t = "array"
          THEN [i \in 1..NumItems |-> HydrateSlot(p.val, i - 1)]
          ELSE Zeros

\* a persistCounts that does not write
PersistCountsSkipped(store, nextCounts) == store

\* persistCounts: localStorage.setItem(STORAGE_KEY_COUNTS, JSON.stringify(nextCounts))
PersistCounts(store, nextCounts) ==
  [store EXCEPT ![STORAGE_KEY_COUNTS] = Item(JSONstringifyArray(nextCounts))]

\* the isReady prop the component is rendered with: render() passes
\* streamlitReady
IsReadyProp == streamlitReady

\* a payload whose primaryCount is taken from the last slot
CountsPayloadLastSlot(nextCounts) ==
  [primaryCount |-> IF Len(nextCounts) >= 1 THEN nextCounts[Len(nextCounts)] ELSE 0,
   counts |-> nextCounts]

\* the payload pushCountsToStreamlit hands to Streamlit.setComponentValue
CountsPayload(nextCounts) ==
  [primaryCount |-> IF Len(nextCounts) >= 1 THEN nextCounts[1] ELSE 0,
   counts |-> nextCounts]
\* pushCountsToStreamlit without its isReady guard
PushCountsUnguarded(ready, nextCounts) == <<CountsPayload(nextCounts)>>
\* pushCountsToStreamlit: nothing unless isReady
PushCountsToStreamlit(ready, nextCounts) ==
  IF ~ready THEN <<>> ELSE <<CountsPayload(nextCounts)>>
\* what the widget sends after a render in which counts or isReady changed:
\* the earlier variant never calls setComponentValue
NotifyEffect(ready, nextCounts) ==
  IF widget = "koyaku" THEN PushCountsToStreamlit(ready, nextCounts) ELSE <<>>

\* the effects with counts among their dependencies, run after a render that
\* changed counts (or isReady): persist, then push
\* persistCounts calls setItem outside any try: when setItem throws, the
\* exception escapes the effect, the effects declared after it do not run and
\* React unmounts the root
EffectsThrow == storageFull
CountsEffects(ready, nextCounts) ==
  IF EffectsThrow
  THEN /\ sentNow' = <<>>
       /\ UNCHANGED <<localStorage, sentLast>>
  ELSE /\ localStorage' = PersistCounts(localStorage, nextCounts)
       /\ sentNow' = NotifyEffect(ready, nextCounts)
       /\ sentLast' = IF NotifyEffect(ready, nextCounts) = <<>> THEN sentLast
                      ELSE NotifyEffect(ready, nextCounts)
\* the phase after the effects of a render of the component in phase p
PhaseAfterEffects(p) == IF EffectsThrow THEN "crashed" ELSE p

(***************************************************************************)
(* Timers.                                                                  *)
(***************************************************************************)
TimerIds == 1..MaxTimers
\* window.clearTimeout(id)
ClearTimeout(pending, id) == {t \in pending : t.id # id}
\* a handle the browser has not handed out, or one nothing refers to any more
FreeIds(pending, ref) == {i \in TimerIds : i # ref /\ \A t \in pending : t.id # i}
NewTimerId(pending, ref) == CHOOSE i \in FreeIds(pending, ref) : \A j \in FreeIds(pending, ref) : i <= j

VARIABLES
  value,              \* swipe: let value
  storageKey,         \* swipe: let storageKey
  pointerStartY,      \* swipe: let pointerStartY (<<>> is null, else <<y>>)
  hasHydrated,        \* swipe: let hasHydrated
  updatingFromPython, \* swipe: let updatingFromPython
  frame               \* swipe: onRender's position and locals (<<>>: not in onRender)

swipeVars == <<value, storageKey, pointerStartY, hasHydrated, updatingFromPython, frame>>
vars == <<widget, keepArgs, phase, localStorage, storageFull, koyakuVars, hostVars, swipeVars, last>>

Did(op) == [op |-> op, pre |-> <<>>, clamped |-> FALSE]
DidClamped(op, clamped) == [op |-> op, pre |-> <<>>, clamped |-> clamped]
\* the arguments of a handler, as the history variable keeps them
Args(a) == IF keepArgs THEN a ELSE <<>>
DidWith(op, a, clamped) == [op |-> op, pre |-> Args(a), clamped |-> clamped]

(***************************************************************************)
(* The koyaku widgets: handlers of the component.  Each action is a handler *)
(* with the render and the effects that follow it.                          *)
(***************************************************************************)
\* the updater without Math.max(0, ...): the sum is stored as it is
UpdatedCountsUnclamped(prev, index, delta) ==
  [i \in 1..Len(prev) |-> IF i - 1 # index THEN prev[i] ELSE prev[i] + delta]

\* the updater without the test i !== index: every slot takes the delta
UpdatedCountsEverySlot(prev, index, delta) ==
  [i \in 1..Len(prev) |-> IF prev[i] + delta < 0 THEN 0 ELSE prev[i] + delta]

\* the updater of handleUpdate: prev.map(...)
UpdatedCounts(prev, index, delta) ==
  [i \in 1..Len(prev) |->
     IF i - 1 # index THEN prev[i]
     ELSE IF prev[i] + delta < 0 THEN 0 ELSE prev[i] + delta]

\* handleDirectInput's nextValue
DirectValue(rawValue) ==
  LET numeric == StringToNumber(rawValue)
  IN IF IsFinite(numeric) /\ ~IsNegative(numeric) THEN MathFloor(numeric) ELSE 0
\* an updater that assigns next[index] = nextValue on a copy of the array: an
\* index at or beyond the length extends the array
DirectCountsAssigned(prev, index, nextValue) ==
  IF index < 0 THEN prev
  ELSE [i \in 1..(IF index + 1 > Len(prev) THEN index + 1 ELSE Len(prev)) |->
          IF i - 1 = index THEN nextValue ELSE IF i <= Len(prev) THEN prev[i] ELSE 0]

\* the updater of handleDirectInput
DirectCounts(prev, index, nextValue) ==
  [i \in 1..Len(prev) |-> IF i - 1 = index THEN nextValue ELSE prev[i]]

\* the totals the component displays: reduce over the main and the extra items
RECURSIVE SumSlots(_, _, _)
SumSlots(c, from, to) ==
  IF from > to THEN 0
  ELSE (IF from \in DOMAIN c THEN c[from] ELSE 0) + SumSlots(c, from + 1, to)
MainTotal(c) == SumSlots(c, 1, MainItems)
ExtraTotal(c) == SumSlots(c, MainItems + 1, NumItems)
OverallTotal(c) == MainTotal(c) + ExtraTotal(c)

\* clearUndo without setUndoCounts(null): the snapshot stays
ClearUndoKeepSnapshot ==
  /\ timers' = IF undoTimerRef # NoTimer THEN ClearTimeout(timers, undoTimerRef) ELSE timers
  /\ undoTimerRef' = NoTimer
  /\ undoCounts' = undoCounts

\* clearUndo without window.clearTimeout: the timer stays pending
ClearUndoKeepTimer ==
  /\ timers' = timers
  /\ undoTimerRef' = NoTimer
  /\ undoCounts' = NoUndo

\* clearUndo
ClearUndo ==
  /\ timers' = IF undoTimerRef # NoTimer THEN ClearTimeout(timers, undoTimerRef) ELSE timers
  /\ undoTimerRef' = NoTimer
  /\ undoCounts' = NoUndo

\* if (undoCounts) { clearUndo(); }
ClearUndoIfOffered ==
  IF undoCounts # NoUndo THEN ClearUndo ELSE UNCHANGED <<timers, undoTimerRef, undoCounts>>

KoyakuMounted == widget \in Koyakus /\ phase = "mounted"

HandleUpdate(index, delta) ==
  /\ last' = DidWith("handleUpdate", <<index, delta>>,
                      index + 1 \in 1..NumItems /\ counts[index + 1] + delta < 0)
  /\ KoyakuMounted
  /\ (delta > 0 /\ index + 1 \in 1..NumItems) => counts[index + 1] < MaxCount
  /\ counts' = UpdatedCounts(counts, index, delta)
  /\ ClearUndoIfOffered
  /\ CountsEffects(IsReadyProp, UpdatedCounts(counts, index, delta))
  /\ phase' = PhaseAfterEffects(phase)
  /\ UNCHANGED <<widget, keepArgs, storageFull, resetAge, streamlitReady, readyCalls, swipeVars>>

HandleDirectInput(index, rawValue) ==
  /\ last' = DidWith("handleDirectInput", <<index, rawValue>>, IsNegative(StringToNumber(rawValue)))
  /\ KoyakuMounted
  /\ counts' = DirectCounts(counts, index, DirectValue(rawValue))
  /\ ClearUndoIfOffered
  /\ CountsEffects(IsReadyProp, DirectCounts(counts, index, DirectValue(rawValue)))
  /\ phase' = PhaseAfterEffects(phase)
  /\ UNCHANGED <<widget, keepArgs, storageFull, resetAge, streamlitReady, readyCalls, swipeVars>>

\* handleReset without window.clearTimeout: the earlier timer stays pending
ResetTimersNoCancel(pending, ref) ==
  pending \cup {[id |-> NewTimerId(pending, ref), due |-> UNDO_TIMEOUT]}

\* the timers after handleReset cancelled the pending one and armed a new one
ResetTimers(pending, ref) ==
  (IF ref # NoTimer THEN ClearTimeout(pending, ref) ELSE pending)
    \cup {[id |-> NewTimerId(pending, ref), due |-> UNDO_TIMEOUT]}

\* a reset that keeps the snapshot of an earlier reset
SnapshotKeepsEarlier(prev) == IF undoCounts # NoUndo THEN undoCounts ELSE prev

\* a snapshot taken after the counts were zeroed instead of before
SnapshotAfterZeroing(prev) == [i \in 1..Len(prev) |-> 0]

\* an unmount whose cleanup does not call window.clearTimeout
UnmountNoCleanup(pending, ref) == pending

\* the timers after the effects of a render: when an effect threw, React
\* unmounts the component and runs the cleanup of the effect that clears the
\* timeout undoTimerRef refers to
UnmountCleanup(pending, ref) ==
  IF EffectsThrow /\ ref # NoTimer THEN ClearTimeout(pending, ref) ELSE pending

\* setUndoCounts([...counts]): the snapshot handleReset takes
SnapshotAtReset(prev) == prev

HandleReset ==
  /\ last' = [op |-> "handleReset", pre |-> counts, clamped |-> FALSE]
  /\ KoyakuMounted
  /\ FreeIds(timers, undoTimerRef) # {}
  /\ undoCounts' = SnapshotAtReset(counts)
  /\ counts' = Zeros
  /\ timers' = UnmountCleanup(ResetTimers(timers, undoTimerRef), NewTimerId(timers, undoTimerRef))
  /\ undoTimerRef' = NewTimerId(timers, undoTimerRef)
  /\ resetAge' = 0
  /\ CountsEffects(IsReadyProp, Zeros)
  /\ phase' = PhaseAfterEffects(phase)
  /\ UNCHANGED <<widget, keepArgs, storageFull, streamlitReady, readyCalls, swipeVars>>

HandleUndo ==
  /\ last' = [op |-> "handleUndo",
              pre |-> IF last.op = "handleReset" THEN last.pre ELSE <<>>,
              clamped |-> FALSE]
  /\ KoyakuMounted
  /\ IF undoCounts = NoUndo
     THEN /\ sentNow' = <<>>
          /\ UNCHANGED <<counts, undoCounts, undoTimerRef, timers, localStorage, sentLast, phase>>
     ELSE /\ counts' = undoCounts
          /\ ClearUndo
          /\ CountsEffects(IsReadyProp, undoCounts)
          /\ phase' = PhaseAfterEffects(phase)
  /\ UNCHANGED <<widget, keepArgs, storageFull, resetAge, streamlitReady, readyCalls, swipeVars>>

\* the callback handleReset hands to setTimeout, run by the browser when due
UndoExpire(t) ==
  /\ last' = Did("undoExpire")
  /\ KoyakuMounted
  /\ t \in timers /\ t.due = 0
  /\ timers' = timers \ {t}
  /\ undoCounts' = NoUndo
  /\ undoTimerRef' = NoTimer
  /\ sentNow' = <<>>
  /\ UNCHANGED <<widget, keepArgs, storageFull, phase, localStorage, counts, resetAge, streamlitReady,
                 readyCalls, sentLast, swipeVars>>

\* time passes by TickMs; a timer that is due runs before time passes further
AgeCap == UNDO_TIMEOUT + TickMs
AdvanceTime ==
  /\ last' = Did("time")
  /\ KoyakuMounted
  /\ \A t \in timers : t.due >= TickMs
  /\ timers # {} \/ (resetAge # NoReset /\ resetAge < AgeCap)
  /\ timers' = {[id |-> t.id, due |-> t.due - TickMs] : t \in timers}
  /\ resetAge' = IF resetAge = NoReset THEN NoReset
                 ELSE IF resetAge + TickMs > AgeCap THEN AgeCap ELSE resetAge + TickMs
  /\ sentNow' = <<>>
  /\ UNCHANGED <<widget, keepArgs, storageFull, phase, localStorage, counts, undoCounts, undoTimerRef,
                 streamlitReady, readyCalls, sentLast, swipeVars>>

\* the cleanup of useEffect(..., [isReady]), run when isReady changes
ReadyCleanup(pending, ref) == IF ref # NoTimer THEN ClearTimeout(pending, ref) ELSE pending

\* RENDER_EVENT listener of index.tsx: markReadyAndRender, and the effects of
\* the render when the isReady prop changed
MarkReadyAndRender ==
  /\ last' = Did("renderEvent")
  /\ widget = "koyaku" /\ phase \in {"booted", "mounted", "crashed"}
  /\ streamlitReady' = TRUE
  /\ readyCalls' = IF ~streamlitReady THEN readyCalls + 1 ELSE readyCalls
  /\ IF phase = "mounted" /\ ~streamlitReady
     THEN /\ timers' = ReadyCleanup(timers, undoTimerRef)
          /\ CountsEffects(IsReadyProp', counts)
          /\ phase' = PhaseAfterEffects(phase)
     ELSE /\ sentNow' = <<>>
          /\ UNCHANGED <<timers, localStorage, sentLast, phase>>
  /\ UNCHANGED <<widget, keepArgs, storageFull, counts, undoCounts, undoTimerRef, resetAge, swipeVars>>

\* RENDER_EVENT listener of the earlier variant: setComponentReady and a
\* render with unchanged state
LegacyRenderEvent ==
  /\ last' = Did("renderEvent")
  /\ widget = "legacy" /\ phase \in {"booted", "mounted", "crashed"}
  /\ readyCalls < MaxReadyCalls
  /\ readyCalls' = readyCalls + 1
  /\ sentNow' = <<>>
  /\ UNCHANGED <<widget, keepArgs, storageFull, phase, localStorage, koyakuVars, sentLast, swipeVars>>

\* the first render of the component: useState(getInitialCounts) and the effects
Mount ==
  /\ last' = [op |-> "mount", pre |-> localStorage[STORAGE_KEY_COUNTS], clamped |-> FALSE]
  /\ widget \in Koyakus /\ phase = "booted"
  /\ phase' = PhaseAfterEffects("mounted")
  /\ counts' = GetInitialCounts(localStorage[STORAGE_KEY_COUNTS])
  /\ CountsEffects(IsReadyProp, GetInitialCounts(localStorage[STORAGE_KEY_COUNTS]))
  /\ UNCHANGED <<widget, keepArgs, storageFull, undoCounts, undoTimerRef, timers, resetAge, streamlitReady,
                 readyCalls, swipeVars>>

(***************************************************************************)
(* The swipe widget.                                                        *)
(***************************************************************************)
MIN_VALUE == 0
\* the swipe threshold of the pointerup listener, in pixels
threshold == 28
ValueKey == <<"v", "a", "l", "u", "e">>
UpdatedAtKey == <<"u", "p", "d", "a", "t", "e", "d", "A", "t">>

\* clamp
Clamp(num) ==
  IF ~IsFinite(num) THEN MIN_VALUE
  ELSE IF MathRound(num) > MIN_VALUE THEN MathRound(num) ELSE MIN_VALUE

\* JSON.stringify({ value: newValue, updatedAt: Date.now() }); the time stamp,
\* which the widget never reads back, is one fixed literal
SwipePayloadText(newValue) ==
  <<TP("{"), TStr(ValueKey), TP(":"), TNum(IntToChars(newValue)), TP(","),
    TStr(UpdatedAtKey), TP(":"), TNum(<<"0">>), TP("}")>>

\* persist that always writes under the initial key
PersistUnderDefaultKey(store, key, newValue) ==
  IF storageFull THEN store
  ELSE [store EXCEPT ![SWIPE_DEFAULT_KEY] = Item(SwipePayloadText(newValue))]

\* persist: setItem inside try/catch, a throw leaves the store as it was
Persist(store, key, newValue) ==
  IF storageFull THEN store ELSE [store EXCEPT ![key] = Item(SwipePayloadText(newValue))]

\* syncToStreamlit: the payloads it sends
SyncToStreamlit(fromPython, v, origin) ==
  IF fromPython THEN <<>> ELSE <<[value |-> v, origin |-> origin]>>

\* an apply that ignores options.origin and sends its default origin
ApplySentAsUser(fromPython, v, notify, origin) ==
  IF notify THEN SyncToStreamlit(fromPython, v, "user") ELSE <<>>

\* apply: the payloads it sends
ApplySent(fromPython, v, notify, origin) ==
  IF notify THEN SyncToStreamlit(fromPython, v, origin) ELSE <<>>

LastOf(old, new) == IF new = <<>> THEN old ELSE <<new[Len(new)]>>

\* apply(newValue, { notify, persist, origin }), called at the start of a
\* handler (earlier holds what the handler has sent so far)
Apply(newValue, notify, doPersist, origin, earlier) ==
  /\ value' = Clamp(newValue)
  /\ localStorage' = IF doPersist THEN Persist(localStorage, storageKey, Clamp(newValue))
                     ELSE localStorage
  /\ sentNow' = earlier \o ApplySent(updatingFromPython, Clamp(newValue), notify, origin)
  /\ sentLast' = LastOf(sentLast, ApplySent(updatingFromPython, Clamp(newValue), notify, origin))

SwipeIdle == widget = "swipe" /\ phase = "booted" /\ frame = <<>>

\* adjust(delta), for the +1/-1 buttons and the swipes
Adjust(delta) ==
  IF delta = 0
  THEN /\ sentNow' = <<>>
       /\ UNCHANGED <<value, localStorage, sentLast>>
  ELSE Apply(NumOfInt(value + delta), TRUE, TRUE, "adjust", <<>>)

\* click listener of the [data-delta] buttons
ClickDelta(delta) ==
  /\ last' = DidClamped("clickDelta", value + delta < 0)
  /\ SwipeIdle
  /\ delta > 0 => value < MaxCount
  /\ Adjust(delta)
  /\ UNCHANGED <<widget, keepArgs, storageFull, phase, koyakuVars, readyCalls, storageKey, pointerStartY,
                 hasHydrated, updatingFromPython, frame>>

\* click listener of the reset button
ClickReset ==
  /\ last' = Did("clickReset")
  /\ SwipeIdle
  /\ Apply(NumOfInt(MIN_VALUE), TRUE, TRUE, "reset", <<>>)
  /\ UNCHANGED <<widget, keepArgs, storageFull, phase, koyakuVars, readyCalls, storageKey, pointerStartY,
                 hasHydrated, updatingFromPython, frame>>

\* change listener of the input: apply(clamp(Number(inputEl.value)), ...)
InputChange(raw) ==
  /\ last' = DidWith("inputChange", <<raw>>, IsNegative(StringToNumber(raw)))
  /\ SwipeIdle
  /\ Apply(NumOfInt(Clamp(StringToNumber(raw))), TRUE, TRUE, "input", <<>>)
  /\ UNCHANGED <<widget, keepArgs, storageFull, phase, koyakuVars, readyCalls, storageKey, pointerStartY,
                 hasHydrated, updatingFromPython, frame>>

\* pointerdown listener
PointerDown(y) ==
  /\ last' = Did("pointerDown")
  /\ SwipeIdle
  /\ pointerStartY' = <<y>>
  /\ sentNow' = <<>>
  /\ UNCHANGED <<widget, keepArgs, storageFull, phase, localStorage, koyakuVars, readyCalls, sentLast, value,
                 storageKey, hasHydrated, updatingFromPython, frame>>

\* the pointerup listener with the two directions exchanged
SwipeDeltaInverted(deltaY) ==
  IF deltaY <= 0 - threshold THEN 0 - 1
  ELSE IF deltaY >= threshold THEN 1
  ELSE 0

\* the delta the pointerup listener hands to adjust (0: none)
SwipeDelta(deltaY) ==
  IF deltaY <= 0 - threshold THEN 1
  ELSE IF deltaY >= threshold THEN 0 - 1
  ELSE 0

\* pointerup listener
PointerUp(y) ==
  /\ last' = DidWith("pointerUp", IF pointerStartY = <<>> THEN <<>> ELSE <<y - pointerStartY[1]>>,
                      pointerStartY # <<>> /\ value + SwipeDelta(y - pointerStartY[1]) < 0)
  /\ SwipeIdle
  /\ IF pointerStartY = <<>>
     THEN /\ sentNow' = <<>>
          /\ UNCHANGED <<value, localStorage, sentLast, pointerStartY>>
     ELSE /\ SwipeDelta(y - pointerStartY[1]) > 0 => value < MaxCount
          /\ Adjust(SwipeDelta(y - pointerStartY[1]))
          /\ pointerStartY' = <<>>
  /\ UNCHANGED <<widget, keepArgs, storageFull, phase, koyakuVars, readyCalls, storageKey, hasHydrated,
                 updatingFromPython, frame>>

\* pointercancel listener
PointerCancel ==
  /\ last' = Did("pointerCancel")
  /\ SwipeIdle
  /\ pointerStartY' = <<>>
  /\ sentNow' = <<>>
  /\ UNCHANGED <<widget, keepArgs, storageFull, phase, localStorage, koyakuVars, readyCalls, sentLast, value,
                 storageKey, hasHydrated, updatingFromPython, frame>>

\* whether if (x) takes x as true
Truthy(x) ==
  CASE x.t = "number" -> x.num.k # "nan" /\ x.num.v # 0
    [] x.t = "string" -> x.str # <<>>
    [] x.t = "boolean" -> x.bool
    [] x.t \in {"null", "undefined"} -> FALSE
    [] OTHER -> TRUE

\* x[key] for a property name: the member of an object, undefined otherwise
Member(x, key) ==
  IF x.t = "object" /\ \E i \in 1..Len(x.elems) : x.elems[i].key = key
  THEN x.elems[CHOOSE i \in 1..Len(x.elems) :
                 /\ x.elems[i].key = key
                 /\ \A j \in 1..Len(x.elems) : x.elems[j].key = key => j <= i].val
  ELSE JUndefined

\* hydrateFromStorage, lines 287-293: what it takes from the parsed item
TakeParsed(parsed, member) ==
  IF Truthy(parsed) /\ member.t = "number"
  THEN [hydrated |-> TRUE, v |-> Clamp(member.num)]
  ELSE [hydrated |-> FALSE, v |-> 0]
TakeParseResult(p) ==
  IF p.threw THEN [hydrated |-> FALSE, v |-> 0] ELSE TakeParsed(p.val, Member(p.val, ValueKey))

\* hydrateFromStorage without the hasHydrated test: it reads on every call
HydrateFromStorageEveryTime(done, item) ==
  IF ~item.present \/ item.text = <<>> THEN [hydrated |-> FALSE, v |-> 0]
  ELSE TakeParseResult(JSONparse(item.text))

\* hydrateFromStorage: whether it hydrated, and the value it set
HydrateFromStorage(done, item) ==
  IF done \/ ~item.present \/ item.text = <<>> THEN [hydrated |-> FALSE, v |-> 0]
  ELSE TakeParseResult(JSONparse(item.text))

\* an incoming value that ignores args.value
IncomingValueIgnoresHost(args, current) == Clamp(NumOfInt(current))

\* onRender: const incomingValue = clamp(Number(args.value ?? value))
IncomingValue(args, current) ==
  Clamp(ToNumber(IF args.value.t \in {"null", "undefined"}
                 THEN JNum(NumOfInt(current)) ELSE args.value))

\* onRender: the storage key after the message
NextStorageKey(args, current) ==
  IF args.storage_key.t = "string" /\ Trim(args.storage_key.str) # <<>>
  THEN Trim(args.storage_key.str)
  ELSE current

\* onRender, lines 315-328, up to the decision to apply the host's value;
\* when no apply is needed the handler completes here
OnRenderDecide(incomingValue, current, hydrated, sentH) ==
  /\ value' = current
  /\ IF incomingValue # current
     THEN /\ updatingFromPython' = TRUE
          /\ frame' = <<[pos |-> "apply", incomingValue |-> incomingValue,
                         hydrated |-> hydrated]>>
          /\ sentNow' = sentH
          /\ sentLast' = LastOf(sentLast, sentH)
     ELSE /\ frame' = <<>>
          /\ UNCHANGED updatingFromPython
          /\ IF hydrated
             THEN /\ sentNow' = sentH
                  /\ sentLast' = LastOf(sentLast, sentH)
             ELSE /\ sentNow' = sentH \o SyncToStreamlit(updatingFromPython, current, "init")
                  /\ sentLast' = LastOf(sentLast, sentH \o SyncToStreamlit(updatingFromPython, current, "init"))

\* onRender after hydrateFromStorage returned h
OnRenderHydrated(incomingValue, h) ==
  IF h.hydrated
  THEN OnRenderDecide(incomingValue, h.v, TRUE,
                      SyncToStreamlit(updatingFromPython, h.v, "storage"))
  ELSE OnRenderDecide(incomingValue, value, FALSE, <<>>)

\* onRender, lines 301-313: the incoming value, the storage key, hydration
OnRenderWithKey(args, key) ==
  /\ key \in DOMAIN localStorage
  /\ storageKey' = key
  /\ hasHydrated' = TRUE
  /\ OnRenderHydrated(IncomingValue(args, value),
                      HydrateFromStorage(hasHydrated, localStorage[key]))

\* RENDER_EVENT listener of the swipe widget
OnRenderEnter(args) ==
  /\ last' = DidWith("onRender", <<args>>, FALSE)
  /\ SwipeIdle
  /\ OnRenderWithKey(args, NextStorageKey(args, storageKey))
  /\ UNCHANGED <<widget, keepArgs, storageFull, phase, localStorage, koyakuVars, readyCalls, pointerStartY>>

\* onRender: apply(incomingValue, { notify: false, origin: "python" })
OnRenderApply ==
  /\ UNCHANGED last
  /\ widget = "swipe" /\ frame # <<>> /\ frame[1].pos = "apply"
  /\ Apply(NumOfInt(frame[1].incomingValue), FALSE, TRUE, "python", sentNow)
  /\ frame' = <<[frame[1] EXCEPT !.pos = "applied"]>>
  /\ UNCHANGED <<widget, keepArgs, storageFull, phase, koyakuVars, readyCalls, storageKey, pointerStartY,
                 hasHydrated, updatingFromPython>>

\* onRender that leaves the flag set
FlagLeftSet == TRUE
\* the flag after onRender's apply returned: updatingFromPython = false
FlagAfterApply == FALSE

\* onRender after the apply: the flag is cleared, the init notification is
\* sent when nothing was hydrated, and the handler returns
OnRenderLeave ==
  /\ UNCHANGED last
  /\ widget = "swipe" /\ frame # <<>> /\ frame[1].pos = "applied"
  /\ updatingFromPython' = FlagAfterApply
  /\ LET sentInit == IF ~frame[1].hydrated
                     THEN SyncToStreamlit(FlagAfterApply, value, "init") ELSE <<>>
     IN /\ sentNow' = sentNow \o sentInit
        /\ sentLast' = LastOf(sentLast, sentInit)
  /\ frame' = <<>>
  /\ UNCHANGED <<widget, keepArgs, storageFull, phase, localStorage, koyakuVars, readyCalls, value, storageKey,
                 pointerStartY, hasHydrated>>

(***************************************************************************)
(* Page life cycle.                                                         *)
(***************************************************************************)
\* the module's top-level code: the listeners are registered, the first
\* render is requested (koyaku) and Streamlit.setComponentReady() is called
Bootstrap ==
  /\ last' = Did("bootstrap")
  /\ phase = "loaded"
  /\ phase' = "booted"
  /\ readyCalls' = readyCalls + 1
  /\ sentNow' = <<>>
  /\ UNCHANGED <<widget, keepArgs, storageFull, localStorage, koyakuVars, sentLast, swipeVars>>

\* the state of a freshly loaded page, apart from local storage
Fresh ==
  /\ phase = "loaded"
  /\ counts = Zeros
  /\ undoCounts = NoUndo
  /\ undoTimerRef = NoTimer
  /\ timers = {}
  /\ resetAge = NoReset
  /\ streamlitReady = FALSE
  /\ readyCalls = 0
  /\ sentNow = <<>>
  /\ sentLast = <<>>
  /\ value = 0
  /\ storageKey = SWIPE_DEFAULT_KEY
  /\ pointerStartY = <<>>
  /\ hasHydrated = FALSE
  /\ updatingFromPython = FALSE
  /\ frame = <<>>
  /\ last = Did("load")

\* the user reloads the page between two handlers: everything but local
\* storage starts afresh
Reload ==
  /\ last' = Did("reload")
  /\ phase # "loaded" /\ frame = <<>>
  /\ phase' = "loaded"
  /\ counts' = Zeros
  /\ undoCounts' = NoUndo
  /\ undoTimerRef' = NoTimer
  /\ timers' = {}
  /\ resetAge' = NoReset
  /\ streamlitReady' = FALSE
  /\ readyCalls' = 0
  /\ sentNow' = <<>>
  /\ sentLast' = <<>>
  /\ value' = 0
  /\ storageKey' = SWIPE_DEFAULT_KEY
  /\ pointerStartY' = <<>>
  /\ hasHydrated' = FALSE
  /\ updatingFromPython' = FALSE
  /\ frame' = <<>>
  /\ UNCHANGED <<widget, keepArgs, storageFull, localStorage>>

(***************************************************************************)
(* Inputs: what local storage may hold when the page loads, what the user   *)
(* types and what the host sends.                                           *)
(***************************************************************************)
\* elements a stored array may hold, as token sequences: numbers, a negative
\* number, a fraction, strings, booleans, null, nested arrays, an object
ElemSamples ==
  { <<TNum(<<"0">>)>>, <<TNum(<<"1">>)>>, <<TNum(<<"2">>)>>, <<TNum(<<"-", "1">>)>>,
    <<TNum(<<"1", ".", "7">>)>>,
    <<TStr(<<"2">>)>>, <<TStr(<<"a", "b", "c">>)>>,
    <<TP("true")>>, <<TP("false")>>, <<TP("null")>>,
    <<TP("["), TP("]")>>, <<TP("["), TNum(<<"2">>), TP("]")>>,
    <<TP("["), TNum(<<"1">>), TP(","), TNum(<<"2">>), TP("]")>>,
    <<TP("{"), TP("}")>> }
\* elements of the part of a stored array beyond the widget's slots
TailSamples == { <<TNum(<<"2">>)>>, <<TStr(<<"a", "b", "c">>)>> }

RECURSIVE JoinElems(_)
JoinElems(es) ==
  IF Len(es) = 0 THEN <<>>
  ELSE IF Len(es) = 1 THEN es[1]
  ELSE es[1] \o <<TP(",")>> \o JoinElems(Tail(es))
ArrayText(es) == <<TP("[")>> \o JoinElems(es) \o <<TP("]")>>

ArrayTexts ==
  UNION { {ArrayText(es) : es \in [1..n -> ElemSamples]} : n \in 0..NumItems }
    \cup { ArrayText(es \o <<t>>) : es \in [1..NumItems -> {<<TNum(<<"1">>)>>}], t \in TailSamples }

\* texts that are not a JSON array: not JSON at all, a cut-off array, an
\* object, a number, a string, null
OtherTexts ==
  { <<TP("junk")>>, <<TP("["), TNum(<<"1">>)>>, <<TP("["), TNum(<<"1">>), TP(","), TP("]")>>,
    <<TP("{"), TP("}")>>, <<TNum(<<"5">>)>>, <<TStr(<<"x">>)>>, <<TP("null")>> }

InitialCountsItems ==
  {Absent, Item(<<>>)} \cup {Item(t) : t \in ArrayTexts \cup OtherTexts}

\* items the swipe widget may find: its own payloads, payloads with a
\* negative, fractional or non-numeric value, and texts of another shape
SwipeValueTexts ==
  { <<TNum(<<"1">>)>>, <<TNum(<<"2">>)>>, <<TNum(<<"-", "1">>)>>, <<TNum(<<"1", ".", "5">>)>>,
    <<TStr(<<"2">>)>>, <<TP("null")>> }
InitialSwipeItems ==
  {Absent, Item(<<>>), Item(<<TP("junk")>>), Item(<<TP("null")>>), Item(<<TNum(<<"2">>)>>),
   Item(<<TP("{"), TP("}")>>), Item(<<TP("["), TNum(<<"2">>), TP("]")>>)}
    \cup { Item(<<TP("{"), TStr(ValueKey), TP(":")>> \o v \o <<TP("}")>>) : v \in SwipeValueTexts }
InitialAltItems == {Absent, Item(SwipePayloadText(1)), Item(<<TP("junk")>>)}

InitialStores(w) ==
  IF w = "swipe"
  THEN { [k \in StorageKeys |->
            IF k = SWIPE_DEFAULT_KEY THEN a ELSE IF k = ALT_KEY THEN b ELSE Absent] :
         a \in InitialSwipeItems, b \in InitialAltItems }
  ELSE { [k \in StorageKeys |-> IF k = STORAGE_KEY_COUNTS THEN a ELSE Absent] :
         a \in InitialCountsItems }

\* what the user may type into an input
TypedInputs ==
  { <<>>, <<"2">>, <<"1", ".", "7">>, <<"1", ".", "5">>, <<"-", "3">>, <<"a", "b", "c">>,
    <<" ", "1", " ">>, InfinityChars }

\* slot indices the cards pass to the handlers
SlotIndices == 0..(NumItems - 1)

\* clientY of pointer events
PointerYs == {0, 1, threshold, threshold + 1}

\* args of a host render message
HostValues ==
  { JUndefined, JNull, JNum(Fin(0)), JNum(Fin(10)), JNum(Fin(20)), JNum(Fin(0 - 10)),
    JNum(Fin(15)), JStr(<<"2">>) }
HostKeys ==
  { JUndefined, JStr(ALT_KEY), JStr(<<" ">> \o ALT_KEY \o <<" ">>), JStr(<<" ", " ">>),
    JStr(SWIPE_DEFAULT_KEY), JNum(Fin(10)) }
HostArgs == { [value |-> v, storage_key |-> k] : v \in HostValues, k \in HostKeys }

(***************************************************************************)
(* The specification.                                                       *)
(***************************************************************************)
Init ==
  /\ widget \in Widgets
  /\ localStorage \in InitialStores(widget)
  /\ keepArgs = FALSE
  /\ storageFull = FALSE
  /\ Fresh

Next ==
  \/ Bootstrap
  \/ Mount
  \/ Reload
  \/ \E index \in SlotIndices, delta \in {0 - 1, 1} : HandleUpdate(index, delta)
  \/ \E index \in SlotIndices, rawValue \in TypedInputs : HandleDirectInput(index, rawValue)
  \/ HandleReset
  \/ HandleUndo
  \/ \E t \in timers : UndoExpire(t)
  \/ AdvanceTime
  \/ MarkReadyAndRender
  \/ LegacyRenderEvent
  \/ \E delta \in {0 - 1, 1} : ClickDelta(delta)
  \/ ClickReset
  \/ \E raw \in TypedInputs : InputChange(raw)
  \/ \E y \in PointerYs : PointerDown(y)
  \/ \E y \in PointerYs : PointerUp(y)
  \/ PointerCancel
  \/ \E args \in HostArgs : OnRenderEnter(args)
  \/ OnRenderApply
  \/ OnRenderLeave

Spec == Init /\ [][Next]_vars

(***************************************************************************)
(* The same widgets in a browser whose storage stops accepting writes.      *)
(***************************************************************************)
\* from now on window.localStorage.setItem throws (quota exceeded)
StorageFills ==
  /\ ~storageFull /\ phase # "loaded" /\ frame = <<>>
  /\ storageFull' = TRUE
  /\ sentNow' = <<>>
  /\ last' = Did("storageFills")
  /\ UNCHANGED <<widget, keepArgs, phase, localStorage, koyakuVars, readyCalls, sentLast, swipeVars>>

NextStorageFull == Next \/ StorageFills

\* the page loads with nothing stored, or with what the widget itself wrote
StoresOfWidget(w) ==
  { [k \in StorageKeys |-> Absent],
    [k \in StorageKeys |->
       IF w = "swipe" /\ k = SWIPE_DEFAULT_KEY THEN Item(SwipePayloadText(1))
       ELSE IF w # "swipe" /\ k = STORAGE_KEY_COUNTS
            THEN Item(JSONstringifyArray([i \in 1..NumItems |-> 1]))
       ELSE Absent] }

InitStorageFull ==
  /\ widget \in Widgets
  /\ localStorage \in StoresOfWidget(widget)
  /\ keepArgs = FALSE
  /\ storageFull = FALSE
  /\ Fresh

SpecStorageFull == InitStorageFull /\ [][NextStorageFull]_vars

(***************************************************************************)
(* The handlers that take arguments, with the history variable keeping the  *)
(* arguments of the latest call.                                            *)
(***************************************************************************)
InitInputs ==
  /\ widget \in Widgets
  /\ localStorage \in StoresOfWidget(widget)
  /\ keepArgs = TRUE
  /\ storageFull = FALSE
  /\ Fresh

NextInputs ==
  \/ Bootstrap
  \/ Mount
  \/ \E index \in SlotIndices, delta \in {0 - 1, 1} : HandleUpdate(index, delta)
  \/ \E index \in SlotIndices, rawValue \in TypedInputs : HandleDirectInput(index, rawValue)
  \/ \E delta \in {0 - 1, 1} : ClickDelta(delta)
  \/ \E raw \in TypedInputs : InputChange(raw)
  \/ \E y \in PointerYs : PointerDown(y)
  \/ \E y \in PointerYs : PointerUp(y)
  \/ \E args \in HostArgs : OnRenderEnter(args)
  \/ OnRenderApply
  \/ OnRenderLeave

SpecInputs == InitInputs /\ [][NextInputs]_vars

(***************************************************************************)
(* The koyaku handlers called with any index, a slot's or not: the          *)
(* parameter is a number, and only the cards that call the handlers keep it *)
(* within the slots.                                                        *)
(***************************************************************************)
AnyIndices == (0 - 1)..NumItems

NextAnyIndex ==
  \/ Bootstrap
  \/ Mount
  \/ \E index \in AnyIndices, delta \in {0 - 1, 1} : HandleUpdate(index, delta)
  \/ \E index \in AnyIndices, rawValue \in TypedInputs : HandleDirectInput(index, rawValue)
  \/ HandleReset
  \/ HandleUndo

SpecAnyIndex == InitInputs /\ [][NextAnyIndex]_vars

(***************************************************************************)
(* The swipe widget with a host that answers every notification by a render *)
(* event carrying the value it was notified of (a Streamlit script that     *)
(* passes the component's value back as its value argument).                *)
(***************************************************************************)
\* origins of the notifications a single user action sends
UserOrigins(v) == {"adjust", "input"} \cup (IF v = MIN_VALUE THEN {"reset"} ELSE {})

\* the widget right after one user action on the rendered, idle widget: the
\* value is persisted under the key in use and the host has been notified
EchoInit ==
  /\ widget = "swipe"
  /\ phase = "booted"
  /\ keepArgs = FALSE
  /\ storageFull = FALSE
  /\ value \in MIN_VALUE..MaxCount
  /\ storageKey \in {SWIPE_DEFAULT_KEY, ALT_KEY}
  /\ \E other \in InitialSwipeItems :
       localStorage = [k \in StorageKeys |->
                         IF k = storageKey THEN Item(SwipePayloadText(value))
                         ELSE IF k = STORAGE_KEY_COUNTS THEN Absent ELSE other]
  /\ \E origin \in UserOrigins(value) : sentNow = <<[value |-> value, origin |-> origin]>>
  /\ sentLast = sentNow
  /\ readyCalls = 1
  /\ pointerStartY = <<>>
  /\ hasHydrated = TRUE
  /\ updatingFromPython = FALSE
  /\ frame = <<>>
  /\ counts = Zeros
  /\ undoCounts = NoUndo
  /\ undoTimerRef = NoTimer
  /\ timers = {}
  /\ resetAge = NoReset
  /\ streamlitReady = FALSE
  /\ last = Did("userAction")

\* the host's answer to the notifications of the latest handler: a render
\* event with the value of the latest one (and the script's storage_key)
EchoRender(key) ==
  /\ sentNow # <<>>
  /\ OnRenderEnter([value |-> JNum(NumOfInt(sentNow[Len(sentNow)].value)), storage_key |-> key])

\* the echoed value equals the widget's value, so onRender applies nothing
\* and returns within the step
EchoNext == \E key \in HostKeys : EchoRender(key)

\* the host answers every notification, and the browser delivers its answer
SpecEcho == EchoInit /\ [][EchoNext]_vars /\ WF_vars(EchoNext)

(***************************************************************************)
(* Round trip through local storage: a widget holding counts S persists     *)
(* them, the page is reloaded and the component hydrates.                   *)
(***************************************************************************)
RoundTripValues == {0, 1, 9, 10, 42, 307}

RT_Start ==
  /\ widget \in Koyakus
  /\ phase = "mounted"
  /\ localStorage = [k \in StorageKeys |-> Absent]
  /\ keepArgs = FALSE
  /\ storageFull = FALSE
  /\ counts \in [1..NumItems -> RoundTripValues]
  /\ undoCounts = NoUndo
  /\ undoTimerRef = NoTimer
  /\ timers = {}
  /\ resetAge = NoReset
  /\ streamlitReady = FALSE
  /\ readyCalls = 1
  /\ sentNow = <<>>
  /\ sentLast = <<>>
  /\ value = 0
  /\ storageKey = SWIPE_DEFAULT_KEY
  /\ pointerStartY = <<>>
  /\ hasHydrated = FALSE
  /\ updatingFromPython = FALSE
  /\ frame = <<>>
  /\ last = Did("typed")

\* the effect that persists the counts
RT_Persist ==
  /\ last.op = "typed"
  /\ localStorage' = PersistCounts(localStorage, counts)
  /\ last' = [op |-> "persisted", pre |-> counts, clamped |-> FALSE]
  /\ UNCHANGED <<widget, keepArgs, storageFull, phase, koyakuVars, hostVars, swipeVars>>

\* the page is reloaded and its script runs
RT_Reload ==
  /\ last.op = "persisted"
  /\ phase' = "booted"
  /\ counts' = Zeros
  /\ last' = [last EXCEPT !.op = "reloaded"]
  /\ UNCHANGED <<widget, keepArgs, storageFull, localStorage, undoCounts, undoTimerRef, timers, resetAge,
                 streamlitReady, hostVars, swipeVars>>

\* useState(getInitialCounts)
RT_Hydrate ==
  /\ last.op = "reloaded"
  /\ phase' = "mounted"
  /\ counts' = GetInitialCounts(localStorage[STORAGE_KEY_COUNTS])
  /\ last' = [last EXCEPT !.op = "hydrated"]
  /\ UNCHANGED <<widget, keepArgs, storageFull, localStorage, undoCounts, undoTimerRef, timers, resetAge,
                 streamlitReady, hostVars, swipeVars>>

RT_Next == RT_Persist \/ RT_Reload \/ RT_Hydrate

SpecRoundTrip == RT_Start /\ [][RT_Next]_vars

(***************************************************************************)
(* Claims.                                                                  *)
(***************************************************************************)
Mutating == {"handleUpdate", "handleDirectInput"}

\* C1: every counter value of the koyaku widgets and of the swipe widget is
\* >= 0 in every reachable state, whatever was hydrated and whatever
\* increments, decrements, direct entries, resets, undos, expiries and host
\* renders occurred; a decrement below 0 leaves 0.
C1_NonNegative ==
  /\ \A i \in 1..Len(counts) : counts[i] >= 0
  /\ value >= 0
  /\ (last.op = "handleUpdate" /\ last.clamped) => \E i \in 1..Len(counts) : counts[i] = 0
  /\ (last.op \in {"clickDelta", "pointerUp"} /\ last.clamped) => value = 0
\* a decrement of a slot that held 0 has acted
C1_Witness ==
  /\ widget = "koyaku" /\ last.op = "handleUpdate" /\ last.clamped
  /\ \E i \in 1..Len(counts) : counts[i] = 0

\* C2: handleReset followed at once by handleUndo leaves the counts that held
\* before the reset, slot by slot, and no snapshot.
C2_ResetUndoRestores ==
  (last.op = "handleUndo" /\ last.pre # <<>>) => (counts = last.pre /\ undoCounts = NoUndo)
\* an undo right after a reset of counts that were not all zero
C2_Witness == last.op = "handleUndo" /\ last.pre # <<>> /\ last.pre # Zeros

\* C3 (as claimed): once the window of the most recent reset of the koyaku
\* widget has elapsed, no undo snapshot exists.
C3_NoSnapshotAfterWindow ==
  (widget = "koyaku" /\ resetAge > UNDO_TIMEOUT) => undoCounts = NoUndo

\* C4: an increment, decrement or direct entry leaves no snapshot and no
\* pending timer; a snapshot appears only by a reset; and an undo without a
\* snapshot changes no slot.  Hence an undo after a mutation that followed a
\* reset changes nothing.
C4_MutationInvalidatesUndo ==
  [][ /\ last'.op \in Mutating => (undoCounts' = NoUndo /\ timers' = {})
      /\ (undoCounts = NoUndo /\ undoCounts' # NoUndo) => last'.op = "handleReset"
      /\ (undoCounts = NoUndo /\ last'.op = "handleUndo") => counts' = counts ]_vars
\* a decrement of a slot that is 0, right after a reset
C4_Witness ==
  /\ last.op = "handleUpdate" /\ last.clamped /\ resetAge = 0 /\ undoCounts = NoUndo

\* what the claim of C5 says getInitialCounts returns for a stored element
C5_ClaimedSlot(parsed, index) ==
  LET e == ArrayAt(parsed, index)
  IN IF e.t = "number" /\ IsFinite(e.num) /\ ~IsNegative(e.num) THEN MathFloor(e.num) ELSE 0
C5_Claimed(item) ==
  IF ~item.present \/ JSONparse(item.text).threw \/ JSONparse(item.text).val.t # "array"
  THEN Zeros
  ELSE [i \in 1..NumItems |-> C5_ClaimedSlot(JSONparse(item.text).val, i - 1)]
\* C5 (as claimed): hydration gives all zeros for a missing, unparsable or
\* non-array item, and for an array gives per slot 0 when the stored element
\* is not a finite number >= 0 and the floor of the number otherwise.
C5_HydrationIsolatesCorruption ==
  last.op = "mount" => counts = C5_Claimed(last.pre)

\* C6: persisting counts S of non-negative integers and hydrating after a
\* reload gives exactly S.
C6_RoundTrip == last.op = "hydrated" => counts = last.pre
\* a round trip of counts with a value of several digits
C6_Witness == last.op = "hydrated" /\ \E i \in 1..Len(counts) : last.pre[i] >= 10

\* C7: the koyaku widget has sent no value to the host in any state where
\* the ready handshake has not completed.
C7_NoValueBeforeReady ==
  (widget = "koyaku" /\ ~streamlitReady) => (sentNow = <<>> /\ sentLast = <<>>)
\* a mutation of the mounted widget before readiness
C7_Witness ==
  /\ widget = "koyaku" /\ ~streamlitReady /\ phase = "mounted"
  /\ last.op \in Mutating /\ counts # Zeros

\* C8: once the koyaku widget is mounted and ready, the latest notification
\* carries the in-memory counts and counts[0] as primaryCount; in particular
\* the render event that brings readiness sends the counts changed before it.
C8_DeferredNotLost ==
  /\ (widget = "koyaku" /\ streamlitReady /\ phase = "mounted") =>
       /\ sentLast # <<>>
       /\ sentLast[1].counts = counts
       /\ sentLast[1].primaryCount = counts[1]
  /\ (widget = "koyaku" /\ streamlitReady /\ phase = "mounted" /\ last.op = "renderEvent"
        /\ sentNow # <<>>) => (sentNow = sentLast /\ sentNow[1].counts = counts)
\* readiness reached by a render event after a reset made while not ready
C8_Witness ==
  /\ widget = "koyaku" /\ last.op = "renderEvent" /\ sentNow # <<>>
  /\ resetAge # NoReset /\ undoCounts # NoUndo /\ undoCounts # Zeros

\* C9 (as claimed): setComponentReady is called exactly once in a widget's
\* lifetime, and before the first setComponentValue.
C9_ReadyExactlyOnce ==
  /\ phase # "loaded" => readyCalls = 1
  /\ sentLast # <<>> => readyCalls >= 1

\* C10: in the swipe widget nothing is sent while updatingFromPython is set,
\* no payload carries the origin python, and the flag is clear whenever
\* onRender has returned.
C10_NoNotifyWhileApplyingHostValue ==
  [][ /\ (updatingFromPython /\ updatingFromPython') =>
           (sentNow' = sentNow /\ sentLast' = sentLast)
      /\ (frame' = <<>>) => ~updatingFromPython'
      /\ widget = "swipe" =>
           \A i \in 1..Len(sentNow') : sentNow'[i].origin # "python" ]_vars
\* onRender has applied a host value and has not returned yet
C10_Witness ==
  /\ widget = "swipe" /\ frame # <<>> /\ frame[1].pos = "applied" /\ updatingFromPython
  /\ value = frame[1].incomingValue

\* C12 (as claimed): when the local-storage write throws during an operation,
\* no exception escapes the widget (the component stays alive), the swipe
\* value that was just set is the one the host was notified of, and the ready
\* koyaku widget has sent the host its in-memory counts.
C12_WriteFailureNotFatal ==
  /\ phase # "crashed"
  /\ (storageFull /\ widget = "swipe" /\ last.op \in {"clickDelta", "clickReset", "inputChange"}) =>
       (sentNow # <<>> /\ sentNow[Len(sentNow)].value = value)
  /\ (storageFull /\ widget = "koyaku" /\ streamlitReady /\ phase = "mounted") =>
       (sentLast # <<>> /\ sentLast[1].counts = counts)

\* C11 (as claimed): with the echoing host, the exchange that a single user
\* action starts reaches a state in which onRender, called with the widget's
\* own value, has returned without sending a notification.
C11_EchoQuiesces == <>(last.op = "onRender" /\ frame = <<>> /\ sentNow = <<>>)

\* the latest handler is onRender, called with a message without a value field
C13_NoValueMessage(h) == h.op = "onRender" /\ h.pre # <<>> /\ h.pre[1].value.t = "undefined"
\* the value the storage item holds for hydrateFromStorage, if it hydrates
C13_StoredValue(item) == HydrateFromStorage(FALSE, item)

\* C13 (as claimed): while the swipe widget handles a host message without a
\* value field, the stored items stay as they are, and the value changes only
\* by hydration: the step that enters the handler leaves the hydrated value
\* if it hydrates and the earlier value otherwise, and no later step of the
\* handler changes the value.
C13_AbsentValueKeepsCurrent ==
  [][ C13_NoValueMessage(last') =>
        /\ localStorage' = localStorage
        /\ frame # <<>> => value' = value
        /\ frame = <<>> =>
             value' = IF ~hasHydrated /\ C13_StoredValue(localStorage[storageKey']).hydrated
                      THEN C13_StoredValue(localStorage[storageKey']).v ELSE value ]_vars

\* the key in use after a message with storage_key k, as the claim states it
C14_ClaimedKey(k, current) ==
  IF k.t = "string" /\ Trim(k.str) # <<>> THEN Trim(k.str) ELSE current
\* C14: a host message whose storage_key is a string that is non-empty once
\* trimmed makes the trimmed string the key in use, any other message leaves
\* the key in use unchanged, nothing else changes the key, and every write
\* to local storage goes to the key in use.
C14_StorageKeyOverride ==
  [][ /\ (last'.op = "onRender" /\ last'.pre # <<>> /\ frame = <<>>) =>
           storageKey' = C14_ClaimedKey(last'.pre[1].storage_key, storageKey)
      /\ ~(last'.op = "onRender" /\ frame = <<>>) => storageKey' = storageKey
      /\ widget = "swipe" =>
           \A k \in StorageKeys : k # storageKey' => localStorage'[k] = localStorage[k] ]_vars
\* a click has written under the key a host message supplied
C14_Witness ==
  /\ last.op = "clickDelta" /\ storageKey = ALT_KEY /\ value > 0
  /\ localStorage[ALT_KEY] = Item(SwipePayloadText(value))
  /\ localStorage[SWIPE_DEFAULT_KEY] # localStorage[ALT_KEY]

\* C15: on a pointer release after a press, with deltaY the release's clientY
\* minus the press's, deltaY < -28 raises the value by 1 and notifies the
\* host, deltaY > 28 lowers it by 1 but not below 0 and notifies the host,
\* and -28 < deltaY < 28 changes nothing and sends nothing; a release
\* without a recorded press changes nothing and sends nothing.
C15_GestureMapping ==
  [][ /\ (last'.op = "pointerUp" /\ pointerStartY = <<>>) =>
           (value' = value /\ sentNow' = <<>> /\ localStorage' = localStorage)
      /\ (last'.op = "pointerUp" /\ pointerStartY # <<>> /\ last'.pre # <<>>) =>
           /\ pointerStartY' = <<>>
           /\ last'.pre[1] < 0 - 28 =>
                (value' = value + 1 /\ sentNow' = <<[value |-> value + 1, origin |-> "adjust"]>>)
           /\ last'.pre[1] > 28 =>
                /\ value' = IF value = 0 THEN 0 ELSE value - 1
                /\ sentNow' = <<[value |-> value', origin |-> "adjust"]>>
           /\ (last'.pre[1] > 0 - 28 /\ last'.pre[1] < 28) =>
                (value' = value /\ sentNow' = <<>> /\ localStorage' = localStorage) ]_vars
\* an upward drag of 29px has raised the value
C15_Witness ==
  /\ last.op = "pointerUp" /\ last.pre = <<0 - 29>> /\ value > 0
  /\ sentNow = <<[value |-> value, origin |-> "adjust"]>>

\* the value the claim of C16 gives a typed text
C16_Claimed(raw) ==
  IF IsFinite(StringToNumber(raw)) /\ ~IsNegative(StringToNumber(raw))
  THEN MathFloor(StringToNumber(raw)) ELSE 0
\* C16 (as claimed): typing raw into the input of slot index of a koyaku
\* widget, or into the input of the swipe widget, sets that value to
\* floor(Number(raw)) when Number(raw) is finite and >= 0 and to 0 otherwise,
\* and changes no other slot.
C16_DirectEntryFloors ==
  [][ /\ (last'.op = "handleDirectInput" /\ last'.pre # <<>>) =>
           counts' = [counts EXCEPT ![last'.pre[1] + 1] = C16_Claimed(last'.pre[2])]
      /\ (last'.op = "inputChange" /\ last'.pre # <<>>) =>
           value' = C16_Claimed(last'.pre[1]) ]_vars

\* C17: increment(i, delta) on a valid slot i holding v sets slot i to
\* max(0, v + delta), leaves every other slot unchanged and moves the
\* displayed overall total by the same amount; so the third increment(0, +1)
\* from all zeros gives slot 0 = 3, the other slots 0 and a total of 3.
C17_IncrementOneSlot ==
  [][ (last'.op = "handleUpdate" /\ last'.pre # <<>>) =>
        /\ counts' = [counts EXCEPT ![last'.pre[1] + 1] =
                         IF @ + last'.pre[2] < 0 THEN 0 ELSE @ + last'.pre[2]]
        /\ OverallTotal(counts') - OverallTotal(counts)
             = counts'[last'.pre[1] + 1] - counts[last'.pre[1] + 1]
        /\ (counts = [i \in 1..NumItems |-> IF i = 1 THEN 2 ELSE 0] /\ last'.pre = <<0, 1>>) =>
             /\ counts' = [i \in 1..NumItems |-> IF i = 1 THEN 3 ELSE 0]
             /\ OverallTotal(counts') = 3 ]_vars
\* three increments of slot 0 from all zeros
C17_Witness ==
  /\ last.op = "handleUpdate" /\ last.pre = <<0, 1>>
  /\ counts = [i \in 1..NumItems |-> IF i = 1 THEN 3 ELSE 0]
  /\ OverallTotal(counts) = 3

\* C18: an undo without a snapshot changes no slot, writes and sends nothing
\* and leaves the component alive; an undo with a snapshot restores it; and
\* no undo leaves a snapshot behind, so a second undo is one without a
\* snapshot and undo(); undo() ends where a single undo() does.
C18_UndoIdempotent ==
  [][ /\ (last'.op = "handleUndo" /\ undoCounts = NoUndo) =>
           /\ counts' = counts /\ phase' = phase
           /\ localStorage' = localStorage /\ sentNow' = <<>>
      /\ (last'.op = "handleUndo" /\ undoCounts # NoUndo) => counts' = undoCounts
      /\ last'.op = "handleUndo" => (undoCounts' = NoUndo /\ timers' = {}) ]_vars
\* an undo without a snapshot, on counts that are not all zero, after a reset
C18_Witness ==
  /\ last.op = "handleUndo" /\ last.pre = <<>> /\ resetAge = 0
  /\ counts # Zeros /\ undoCounts = NoUndo

\* C19: a reset sets every slot to 0, makes the snapshot the counts held just
\* before it (whatever snapshot existed), and leaves exactly one timer
\* pending, due a full window later; so the snapshot of a reset that follows
\* a reset is all zeros, and an undo right after it leaves all zeros.
C19_ResetReplacesSnapshot ==
  [][ /\ last'.op = "handleReset" =>
           /\ counts' = Zeros
           /\ undoCounts' = counts
           /\ resetAge' = 0
           /\ timers' = {[id |-> undoTimerRef', due |-> UNDO_TIMEOUT]}
      /\ (last.op = "handleReset" /\ last'.op = "handleReset") => undoCounts' = Zeros
      /\ (last.op = "handleReset" /\ last.pre = Zeros /\ undoCounts # NoUndo
            /\ last'.op = "handleUndo") => counts' = Zeros ]_vars
\* a reset right after a reset of counts that were not all zero
C19_Witness ==
  /\ last.op = "handleReset" /\ last.pre = Zeros /\ undoCounts = Zeros
  /\ undoTimerRef = 2 /\ resetAge = 0
  /\ localStorage[STORAGE_KEY_COUNTS] = Item(JSONstringifyArray(Zeros))

\* C20: in the koyaku widgets at most one expiry timer is pending, it is the
\* one undoTimerRef refers to, a snapshot exists while it is pending, and it
\* is due exactly one window after the most recent reset.
C20_OneTimerPending ==
  widget \in Koyakus =>
    /\ Cardinality(timers) <= 1
    /\ \A t \in timers :
         /\ t.id = undoTimerRef
         /\ undoCounts # NoUndo
         /\ resetAge # NoReset
         /\ t.due + resetAge = UNDO_TIMEOUT
\* a reset made while the timer of an earlier reset was pending, half a
\* window later
C20_Witness ==
  /\ widget \in Koyakus /\ undoTimerRef = 2 /\ resetAge = TickMs
  /\ timers = {[id |-> 2, due |-> UNDO_TIMEOUT - TickMs]}

\* C21: an increment or a direct entry whose index is not one of the slots
\* 0..N-1 leaves every slot value and the number of slots unchanged, and the
\* component stays alive (no exception).
C21_OutOfRangeIndexIsNoOp ==
  [][ (last'.op \in Mutating /\ last'.pre # <<>> /\ last'.pre[1] \notin 0..(NumItems - 1)) =>
        /\ counts' = counts
        /\ Len(counts') = NumItems
        /\ phase' = phase ]_vars
\* a direct entry of "2" at index N has acted on counts that are not all zero
C21_Witness ==
  /\ last.op = "handleDirectInput" /\ last.pre = <<NumItems, <<"2">> >>
  /\ counts # Zeros /\ Len(counts) = NumItems /\ phase = "mounted"

\* C22: whenever a koyaku widget is mounted and its effects have run, ready
\* or not, the item under the counts key is the JSON array of the in-memory
\* counts, and hydrating from that item gives exactly the counts.
C22_PersistenceMirrorsMemory ==
  (widget \in Koyakus /\ phase = "mounted") =>
    /\ localStorage[STORAGE_KEY_COUNTS] = Item(JSONstringifyArray(counts))
    /\ GetInitialCounts(localStorage[STORAGE_KEY_COUNTS]) = counts
\* an undo has restored counts that are not all zero, before readiness
C22_Witness ==
  /\ widget = "koyaku" /\ ~streamlitReady /\ phase = "mounted"
  /\ last.op = "handleUndo" /\ last.pre # <<>> /\ counts # Zeros
  /\ localStorage[STORAGE_KEY_COUNTS] = Item(JSONstringifyArray(counts))

\* C23: hasHydrated, once set, stays set until the page is reloaded; a render
\* event of the swipe widget that finds it set takes nothing from local
\* storage (the value is as before when the handler decides, nothing is
\* marked hydrated and no storage notification is sent), also when the message
\* changes the storage key; a koyaku widget mounts, and so reads the counts
\* key, only from the freshly booted page and is not mounted again before a
\* reload.
C23_HydratesOnce ==
  [][ /\ (hasHydrated /\ last'.op # "reload") => hasHydrated'
      /\ (widget = "swipe" /\ hasHydrated /\ frame = <<>> /\ last'.op = "onRender") =>
           /\ value' = value
           /\ \A i \in 1..Len(sentNow') : sentNow'[i].origin # "storage"
           /\ frame' # <<>> => ~frame'[1].hydrated
      /\ (widget \in Koyakus /\ last'.op = "mount") => (phase = "booted" /\ phase' = "mounted")
      /\ (widget \in Koyakus /\ phase = "mounted") => phase' \in {"mounted", "loaded"} ]_vars
\* a render event other than the first has made a key the key in use under
\* which a value is stored that the widget does not hold
C23_Witness ==
  /\ widget = "swipe" /\ last.op = "onRender" /\ frame = <<>> /\ hasHydrated
  /\ storageKey = ALT_KEY /\ localStorage[ALT_KEY] = Item(SwipePayloadText(1))
  /\ value # 1

\* C24: in the swipe widget a click on +1/-1, a click on reset and a direct
\* entry each send exactly one notification, carrying the value just set and
\* persisted under the key in use, with origin adjust, reset and input; a
\* pointer release that changes the value sends exactly one, with origin
\* adjust, and one that changes nothing sends at most that one; a step of the
\* render handler sends at most one notification, carrying the value held
\* when it is sent, with origin storage in the step that hydrates and origin
\* init otherwise.
C24_OneNotificationPerChange ==
  [][ widget = "swipe" =>
        /\ (last'.op = "clickDelta") =>
             /\ sentNow' = <<[value |-> value', origin |-> "adjust"]>>
             /\ localStorage'[storageKey] = Item(SwipePayloadText(value'))
        /\ (last'.op = "clickReset") =>
             /\ sentNow' = <<[value |-> value', origin |-> "reset"]>>
             /\ localStorage'[storageKey] = Item(SwipePayloadText(value'))
        /\ (last'.op = "inputChange") =>
             /\ sentNow' = <<[value |-> value', origin |-> "input"]>>
             /\ localStorage'[storageKey] = Item(SwipePayloadText(value'))
        /\ (last'.op = "pointerUp" /\ value' # value) =>
             /\ sentNow' = <<[value |-> value', origin |-> "adjust"]>>
             /\ localStorage'[storageKey] = Item(SwipePayloadText(value'))
        /\ (last'.op = "pointerUp" /\ value' = value) =>
             sentNow' \in {<<>>, <<[value |-> value', origin |-> "adjust"]>>}
        /\ (last'.op = "onRender" /\ frame = <<>>) =>
             /\ Len(sentNow') <= 1
             /\ \A i \in 1..Len(sentNow') :
                  /\ sentNow'[i].value = value'
                  /\ sentNow'[i].origin =
                       IF ~hasHydrated /\ HydrateFromStorage(FALSE, localStorage[storageKey']).hydrated
                       THEN "storage" ELSE "init"
        /\ (last'.op = "onRender" /\ frame # <<>>) =>
             /\ Len(sentNow') <= Len(sentNow) + 1
             /\ SubSeq(sentNow', 1, Len(sentNow)) = sentNow
             /\ \A i \in (Len(sentNow) + 1)..Len(sentNow') :
                  sentNow'[i] = [value |-> value', origin |-> "init"] ]_vars
\* a direct entry of 1.7 has set, persisted and sent one value
C24_Witness ==
  /\ widget = "swipe" /\ last.op = "inputChange" /\ value = 2
  /\ sentNow = <<[value |-> 2, origin |-> "input"]>>
  /\ localStorage[storageKey] = Item(SwipePayloadText(2))

\* C25: once a koyaku component has been unmounted no timer is pending, also
\* when the handler that led to the unmount had just armed one, and the
\* expiry callback runs only in a mounted component that stays mounted.
C25_TeardownCancelsTimer ==
  [][ /\ (widget \in Koyakus /\ phase' = "crashed") => timers' = {}
      /\ last'.op = "undoExpire" => (phase = "mounted" /\ phase' = "mounted") ]_vars
\* the component was unmounted after a reset that had armed the timer
C25_Witness ==
  /\ widget \in Koyakus /\ phase = "crashed" /\ last.op = "handleReset"
  /\ undoTimerRef # NoTimer /\ undoCounts # NoUndo /\ timers = {}

\* C26 (as claimed): in every reachable state of the koyaku widget an undo
\* snapshot exists if and only if an expiry timer is pending.
C26_SnapshotIffTimer ==
  widget = "koyaku" => ((undoCounts # NoUndo) <=> (timers # {}))

\* C27: in every reachable state of a koyaku widget the counts have exactly
\* one slot per item, and so has a snapshot; after hydration from a stored
\* array the slots beyond the array's length are 0, and elements beyond the
\* number of items are dropped.
C27_LengthIsFixed ==
  widget \in Koyakus =>
    /\ DOMAIN counts = 1..NumItems
    /\ undoCounts # NoUndo => DOMAIN undoCounts = 1..NumItems
    /\ (last.op = "mount" /\ last.pre.present /\ last.pre.text # <<>>
          /\ ~JSONparse(last.pre.text).threw /\ JSONparse(last.pre.text).val.t = "array") =>
         \A i \in 1..NumItems :
           i > Len(JSONparse(last.pre.text).val.elems) => counts[i] = 0
\* the component has mounted from a stored array with more elements than items
C27_Witness ==
  /\ widget \in Koyakus /\ last.op = "mount" /\ phase = "mounted"
  /\ last.pre.present /\ ~JSONparse(last.pre.text).threw
  /\ JSONparse(last.pre.text).val.t = "array"
  /\ Len(JSONparse(last.pre.text).val.elems) > NumItems
  /\ Len(counts) = NumItems /\ counts # Zeros

\* the latest handler is onRender, called with a message whose value is a number
C28_NumericMessage(h) == h.op = "onRender" /\ h.pre # <<>> /\ h.pre[1].value.t = "number"

\* C28: when the first render message of the swipe widget carries a number v
\* and the item under the key in use holds a valid value s other than
\* clamp(v), the step that enters the handler hydrates s and sends the one
\* notification (s, storage), and when the handler returns the value and the
\* stored value are clamp(v) and that notification is still the only one
\* sent, so that none carries clamp(v).
C28_HostValueWins ==
  [][ /\ (C28_NumericMessage(last') /\ frame = <<>> /\ ~hasHydrated
            /\ HydrateFromStorage(FALSE, localStorage[storageKey']).hydrated
            /\ HydrateFromStorage(FALSE, localStorage[storageKey']).v
                 # Clamp(last'.pre[1].value.num)) =>
           /\ value' = HydrateFromStorage(FALSE, localStorage[storageKey']).v
           /\ sentNow' = <<[value |-> value', origin |-> "storage"]>>
           /\ frame' # <<>> /\ frame'[1].hydrated
      /\ (C28_NumericMessage(last') /\ frame # <<>> /\ frame[1].hydrated /\ frame' = <<>>) =>
           /\ value' = Clamp(last'.pre[1].value.num)
           /\ localStorage'[storageKey'] = Item(SwipePayloadText(value'))
           /\ Len(sentNow') = 1
           /\ sentNow'[1].origin = "storage" /\ sentNow'[1].value # value' ]_vars
\* the first render carried 2 while 1 was stored: 1 was announced, 2 is held
\* and stored
C28_Witness ==
  /\ widget = "swipe" /\ last.op = "onRender" /\ frame = <<>> /\ last.pre # <<>>
  /\ last.pre[1].value = JNum(Fin(20)) /\ value = 2
  /\ sentNow = <<[value |-> 1, origin |-> "storage"]>>
  /\ localStorage[storageKey] = Item(SwipePayloadText(2))

=============================================================================
